---- MODULE Spec2Model ----
(***************************************************************************)
(* Model of package version (src/version/prop.go): the build-identity      *)
(* accessors IsMobile, OS, IsSandboxedMacOS, IsMacSysExt, IsWindowsGUI,    *)
(* IsUnstableBuild and GetMeta, called by concurrent goroutines of one     *)
(* process.                                                                *)
(*                                                                         *)
(* Go strings are modelled as sequences of one-character strings, so that  *)
(* strings.Cut, strings.HasSuffix, strings.Contains, strings.EqualFold,    *)
(* filepath.Base and strconv.Atoi are computed character by character.     *)
(***************************************************************************)
EXTENDS Integers, Sequences, FiniteSets

\* ------------------------------------------------------------------ bounds
\* Number of goroutines that call the accessors.
NumThreads == 2
\* Total number of accessor calls started in one behaviour.
MaxCalls == 2

Threads == 1..NumThreads

\* ------------------------------------------------- string constants of prop.go
\* "io.tailscale.ipn.macsys.network-extension" (prop.go:51)
MacSysExtName == <<"i","o",".","t","a","i","l","s","c","a","l","e",".","i","p","n",".","m","a","c","s","y","s",".","n","e","t","w","o","r","k","-","e","x","t","e","n","s","i","o","n">>
\* "/Contents/MacOS/Tailscale" (prop.go:52)
MacAppSuffix == <<"/","C","o","n","t","e","n","t","s","/","M","a","c","O","S","/","T","a","i","l","s","c","a","l","e">>
\* "/Contents/MacOS/IPNExtension" (prop.go:52)
MacExtSuffix == <<"/","C","o","n","t","e","n","t","s","/","M","a","c","O","S","/","I","P","N","E","x","t","e","n","s","i","o","n">>
\* "tailscale-ipn.exe" (prop.go:97)
WinGUIExe == <<"t","a","i","l","s","c","a","l","e","-","i","p","n",".","e","x","e">>
\* "tailscale-ipn" (prop.go:97)
WinGUI == <<"t","a","i","l","s","c","a","l","e","-","i","p","n">>
\* "-dev" (prop.go:195)
DevMarker == <<"-","d","e","v">>

\* ------------------------------------------------------------ input values
\* Executable paths os.Executable may report on a "/"-separated platform.
P_SysExt == <<"/","L","/","i","o",".","t","a","i","l","s","c","a","l","e",".","i","p","n",".","m","a","c","s","y","s",".","n","e","t","w","o","r","k","-","e","x","t","e","n","s","i","o","n">>
P_App == <<"/","A","/","C","o","n","t","e","n","t","s","/","M","a","c","O","S","/","T","a","i","l","s","c","a","l","e">>
P_Ext == <<"/","A","/","C","o","n","t","e","n","t","s","/","M","a","c","O","S","/","I","P","N","E","x","t","e","n","s","i","o","n">>
P_Daemon == <<"/","b","i","n","/","t","a","i","l","s","c","a","l","e","d">>
\* "/L/Xio.tailscale.ipn.macsys.network-extension": the name is a proper
\* suffix of the last path element.
P_NearSysExt == <<"/","L","/","X","i","o",".","t","a","i","l","s","c","a","l","e",".","i","p","n",".","m","a","c","s","y","s",".","n","e","t","w","o","r","k","-","e","x","t","e","n","s","i","o","n">>
\* "/A/XContents/MacOS/Tailscale"
P_NearApp == <<"/","A","/","X","C","o","n","t","e","n","t","s","/","M","a","c","O","S","/","T","a","i","l","s","c","a","l","e">>
PosixPaths == {P_SysExt, P_App, P_Ext, P_Daemon, P_NearSysExt, P_NearApp}

\* Executable paths os.Executable may report on Windows.
\* "C:\P\tailscale-ipn.exe"
W_GUI == <<"C",":","\\","P","\\","t","a","i","l","s","c","a","l","e","-","i","p","n",".","e","x","e">>
\* "C:\P\Tailscale-IPN.EXE"
W_GUIUpper == <<"C",":","\\","P","\\","T","a","i","l","s","c","a","l","e","-","I","P","N",".","E","X","E">>
\* "C:/P/TAILSCALE-ipn"
W_GUINoExt == <<"C",":","/","P","/","T","A","I","L","S","C","A","L","E","-","i","p","n">>
\* "C:\P\tailscaled.exe"
W_Daemon == <<"C",":","\\","P","\\","t","a","i","l","s","c","a","l","e","d",".","e","x","e">>
\* "C:\P\xtailscale-ipn.exe"
W_NearGUI == <<"C",":","\\","P","\\","x","t","a","i","l","s","c","a","l","e","-","i","p","n",".","e","x","e">>
WindowsPaths == {W_GUI, W_GUIUpper, W_GUINoExt, W_Daemon, W_NearGUI}

\* Values of the build-stamped short version string.
S_120 == <<"1",".","2",".","0">>
S_130 == <<"1",".","3",".","0">>
S_1x0 == <<"1",".","x",".","0">>
S_1 == <<"1">>
S_13 == <<"1",".","3">>
S_neg == <<"1",".","-","3",".","0">>
S_plus == <<"1",".","+","3",".","0">>
S_120dev == <<"1",".","2",".","0","-","d","e","v">>
\* "1.3.0-dev20": a dated dev build of an unstable version.
S_130dev == <<"1",".","3",".","0","-","d","e","v","2","0">>
\* "1.9223372036854775809.0": the minor field is odd and exceeds the int range.
S_big == <<"1",".","9","2","2","3","3","7","2","0","3","6","8","5","4","7","7","5","8","0","9",".","0">>
Shorts == {S_120, S_130, S_1x0, S_1, S_13, S_neg, S_plus, S_120dev, S_130dev, S_big}

\* ------------------------------------------------------- string primitives
\* strings.HasSuffix(s, suffix)
HasSuffix(s, suffix) ==
    /\ Len(s) >= Len(suffix)
    /\ SubSeq(s, Len(s) - Len(suffix) + 1, Len(s)) = suffix

\* strings.Contains(s, substr)
Contains(s, substr) ==
    \E i \in 0..(Len(s) - Len(substr)) : SubSeq(s, i + 1, i + Len(substr)) = substr

\* strings.Index(s, c) for a one-character separator; 0 when absent
\* (positions are 1-based).
Index(s, c) ==
    IF \E i \in 1..Len(s) : s[i] = c
    THEN CHOOSE i \in 1..Len(s) : s[i] = c /\ \A j \in 1..(i - 1) : s[j] # c
    ELSE 0

\* strings.Cut(s, sep) for a one-character separator.
Cut(s, sep) ==
    LET i == Index(s, sep) IN
    IF i = 0
    THEN [before |-> s, after |-> <<>>, found |-> FALSE]
    ELSE [before |-> SubSeq(s, 1, i - 1), after |-> SubSeq(s, i + 1, Len(s)), found |-> TRUE]

UpperLetters == <<"A","B","C","D","E","F","G","H","I","J","K","L","M","N","O","P","Q","R","S","T","U","V","W","X","Y","Z">>
LowerLetters == <<"a","b","c","d","e","f","g","h","i","j","k","l","m","n","o","p","q","r","s","t","u","v","w","x","y","z">>

\* Simple case folding of one ASCII character.
FoldChar(c) ==
    IF \E i \in 1..Len(UpperLetters) : UpperLetters[i] = c
    THEN LowerLetters[CHOOSE i \in 1..Len(UpperLetters) : UpperLetters[i] = c]
    ELSE c

\* strings.EqualFold(s, t) on ASCII strings.
EqualFold(s, t) ==
    /\ Len(s) = Len(t)
    /\ \A i \in 1..Len(s) : FoldChar(s[i]) = FoldChar(t[i])

\* os.IsPathSeparator: '/' everywhere, and also '\' on Windows.
IsPathSeparator(c, goos) == c = "/" \/ (goos = "windows" /\ c = "\\")

\* Length of filepath.VolumeName(path): a drive letter and colon on Windows,
\* nothing elsewhere.
VolumeNameLen(path, goos) ==
    IF /\ goos = "windows"
       /\ Len(path) >= 2
       /\ path[2] = ":"
       /\ \E i \in 1..Len(UpperLetters) : path[1] \in {UpperLetters[i], LowerLetters[i]}
    THEN 2
    ELSE 0

\* path with its trailing separators removed (first loop of filepath.Base).
RECURSIVE StripTrailingSeparators(_, _)
StripTrailingSeparators(path, goos) ==
    IF Len(path) > 0 /\ IsPathSeparator(path[Len(path)], goos)
    THEN StripTrailingSeparators(SubSeq(path, 1, Len(path) - 1), goos)
    ELSE path

\* filepath.Base(path) as built for platform goos.
Base(path, goos) ==
    IF path = <<>> THEN <<".">>
    ELSE
      LET p1 == StripTrailingSeparators(path, goos)
          p2 == SubSeq(p1, VolumeNameLen(p1, goos) + 1, Len(p1))
          seps == {i \in 1..Len(p2) : IsPathSeparator(p2[i], goos)}
          last == IF seps = {} THEN 0 ELSE CHOOSE i \in seps : \A j \in seps : j <= i
          p3 == SubSeq(p2, last + 1, Len(p2))
      IN IF p3 = <<>>
         THEN (IF goos = "windows" THEN <<"\\">> ELSE <<"/">>)
         ELSE p3

\* ----------------------------------------------------------- strconv.Atoi
\* A Go int is kept as sign and decimal magnitude (no leading zeros), so that
\* 64-bit values need no 64-bit arithmetic.
Digits == <<"0","1","2","3","4","5","6","7","8","9">>
IsDigit(c) == \E i \in 1..Len(Digits) : Digits[i] = c
DigitVal(c) == (CHOOSE i \in 1..Len(Digits) : Digits[i] = c) - 1

\* 9223372036854775807 = 1<<63 - 1, the largest int on a 64-bit platform.
MaxIntMag == <<"9","2","2","3","3","7","2","0","3","6","8","5","4","7","7","5","8","0","7">>
\* 9223372036854775808 = 1<<63, the magnitude of the smallest int.
MinIntMag == <<"9","2","2","3","3","7","2","0","3","6","8","5","4","7","7","5","8","0","8">>

RECURSIVE StripLeadingZeros(_)
StripLeadingZeros(ds) ==
    IF Len(ds) > 1 /\ ds[1] = "0" THEN StripLeadingZeros(Tail(ds)) ELSE ds

\* a <= b for magnitudes without leading zeros.
MagLeq(a, b) ==
    \/ Len(a) < Len(b)
    \/ /\ Len(a) = Len(b)
       /\ \/ a = b
          \/ \E i \in 1..Len(a) :
                /\ \A j \in 1..(i - 1) : a[j] = b[j]
                /\ DigitVal(a[i]) < DigitVal(b[i])

\* strconv.Atoi(s): an optional sign, then one or more decimal digits, the
\* value within the range of int; err otherwise.
Atoi(s) ==
    LET signed == Len(s) > 0 /\ s[1] \in {"+", "-"}
        neg == Len(s) > 0 /\ s[1] = "-"
        body == IF signed THEN Tail(s) ELSE s
        syntaxOK == Len(body) > 0 /\ \A i \in 1..Len(body) : IsDigit(body[i])
        mag == StripLeadingZeros(body)
        rangeOK == IF neg THEN MagLeq(mag, MinIntMag) ELSE MagLeq(mag, MaxIntMag)
    IN IF syntaxOK /\ rangeOK
       THEN [err |-> FALSE, neg |-> neg /\ mag # <<"0">>, mag |-> mag]
       ELSE [err |-> TRUE, neg |-> FALSE, mag |-> <<"0">>]

\* Go's n % 2: the remainder truncates toward zero, so it takes the sign of n.
Rem2(n) ==
    IF DigitVal(n.mag[Len(n.mag)]) % 2 = 0 THEN 0
    ELSE IF n.neg THEN -1 ELSE 1

\* ------------------------------------------------- the accessors' computations
\* IsMobile's result for runtime.GOOS = goos.
IsMobileOf(goos) == goos = "android" \/ goos = "ios"

\* Mutant: both Apple platforms are reported as "macOS".
OSOf_AppleIsMac(goos) == IF goos \in {"ios", "darwin"} THEN "macOS" ELSE goos

\* OS's result for runtime.GOOS = goos.
OSOf(goos) ==
    IF goos = "ios" THEN "iOS"
    ELSE IF goos = "darwin" THEN "macOS"
    ELSE goos

\* Mutant: iOS is taken for darwin, as when Go reported GOOS=darwin for both.
NotDarwin_NorIOS(goos) == goos \notin {"darwin", "ios"}

\* The guard of IsSandboxedMacOS and IsMacSysExt: return false at once.
NotDarwin(goos) == goos # "darwin"

\* The guard of IsWindowsGUI: return false at once.
NotWindows(goos) == goos # "windows"

\* Mutant: the name is matched as a suffix of the path, not as its base name.
MacSysExtOf_Suffix(exe, goos) == HasSuffix(exe, MacSysExtName)

\* initMacFlavor: the value assigned to isMacSysExt.
MacSysExtOf(exe, goos) == Base(exe, goos) = MacSysExtName

\* initMacFlavor: the value assigned to isMacSandboxed.
MacSandboxedOf(sysExt, exe) ==
    sysExt \/ HasSuffix(exe, MacAppSuffix) \/ HasSuffix(exe, MacExtSuffix)

\* Mutant: the whole path is compared, as initWinFlavor does.
WindowsGUIOf_NoBase(exe, goos) == EqualFold(exe, WinGUIExe) \/ EqualFold(exe, WinGUI)

\* IsWindowsGUI: the value returned for the result (exe, err) of os.Executable;
\* exe is "" when err is set, and the error is ignored.
WindowsGUIOf(exe, goos) ==
    LET name == Base(exe, goos) IN
    EqualFold(name, WinGUIExe) \/ EqualFold(name, WinGUI)

\* initUnstable: the value of isUnstableBuild when it returns, old being the
\* value on entry.
InitUnstableOf(short, old) ==
    LET c1 == Cut(short, ".") IN
    IF ~c1.found THEN old
    ELSE LET c2 == Cut(c1.after, ".") IN
         IF ~c2.found THEN old
         ELSE LET minor == Atoi(c2.before) IN
              IF minor.err THEN old
              ELSE Rem2(minor) = 1

\* Mutant: "-dev" is looked for at the end of Short only.
IsDevOf_Suffix(short) == HasSuffix(short, DevMarker)

\* GetMeta: the IsDev field.
IsDevOf(short) == Contains(short, DevMarker)

\* ---------------------------------------------------------------- sync.Once
\* A sync.Once is [done, m]: done is its done flag, m the goroutine holding
\* its mutex (0 when free).
NewOnce == [done |-> FALSE, m |-> 0]

\* Mutant: Do also returns at once while another goroutine is running f.
OnceFastPath_NoWait(o) == o.done \/ o.m # 0

\* Once.Do's fast path: done is already set, Do returns without locking.
OnceFastPath(o) == o.done

\* Mutant: the slow path does not wait for the mutex.
OnceCanLock_NoMutex(o) == TRUE

\* Once.Do's slow path can take the mutex.
OnceCanLock(o) == o.m = 0

\* Mutant: done is stored only when f ran to its end, so a failed f is retried.
OnceAfterF_RetryOnFailure(o, fOK) == [done |-> fOK, m |-> 0]

\* The once when Do's slow path returns: done is stored and the mutex released
\* whatever f did (fOK: f ran to its last statement rather than returning early).
OnceAfterF(o, fOK) == [done |-> TRUE, m |-> 0]

\* ------------------------------------------------------------------- state
VARIABLES
    GOOS,                      \* runtime.GOOS
    exePath,                   \* the path os.Executable reports when it succeeds
    Short, majorMinorPatch, Long, GitCommit, GitDirty, ExtraGitCommit,
    CurrentCapabilityVersion,  \* the build-stamped inputs of GetMeta
    macFlavorOnce, isMacSysExt, isMacSandboxed,
    winFlavorOnce, isWindowsGUI,
    isUnstableOnce, isUnstableBuild,
    pc,                        \* pc[t]: where goroutine t is in its call
    op,                        \* op[t]: the accessor goroutine t is running
    exe,                       \* exe[t]: initMacFlavor's local exe
    started,                   \* accessor calls started so far
    returned,                  \* returned[a]: the results accessor a has returned, in order
    initRuns,                  \* initRuns[f]: times the init function f was entered
    executableCalls,           \* executableCalls[f]: os.Executable calls made by f
    macInitErr,                \* initMacFlavor returned on err != nil
    winLog                     \* IsWindowsGUI's calls: <<os.Executable failed, exe, result>>

inputs == <<GOOS, exePath, Short, majorMinorPatch, Long, GitCommit, GitDirty,
            ExtraGitCommit, CurrentCapabilityVersion>>
macVars == <<macFlavorOnce, isMacSysExt, isMacSandboxed>>
winVars == <<winFlavorOnce, isWindowsGUI>>
unstableVars == <<isUnstableOnce, isUnstableBuild>>
vars == <<inputs, macVars, winVars, unstableVars, pc, op, exe, started, returned,
          initRuns, executableCalls, macInitErr, winLog>>

GOOSValues == {"darwin", "ios", "android", "linux", "windows"}
Accessors == {"IsMobile", "OS", "IsSandboxedMacOS", "IsMacSysExt", "IsWindowsGUI",
              "IsUnstableBuild", "GetMeta"}
InitFuncs == {"initMacFlavor", "initWinFlavor", "initUnstable"}

\* The other build-stamped values: a clean release build and a dirty build
\* with a supplemental repository.
Stamps ==
    { [longSuffix |-> <<"-","t","a">>, GitCommit |-> <<"a">>, GitDirty |-> FALSE,
       ExtraGitCommit |-> <<>>, Cap |-> 90],
      [longSuffix |-> <<"-","t","b","-","g","c">>, GitCommit |-> <<"b">>, GitDirty |-> TRUE,
       ExtraGitCommit |-> <<"c">>, Cap |-> 91] }

\* The state of a process before any accessor is called: package-level
\* variables hold their zero values, and the platform, the executable's path
\* and the build stamps are fixed for the life of the process.
InitWith(gooses, posixPaths, windowsPaths, shorts, stamps) ==
    /\ GOOS \in gooses
    /\ exePath \in (IF GOOS = "windows" THEN windowsPaths ELSE posixPaths)
    /\ Short \in shorts
    /\ majorMinorPatch = Cut(Short, "-").before
    /\ \E st \in stamps :
          /\ Long = Short \o st.longSuffix
          /\ GitCommit = st.GitCommit
          /\ GitDirty = st.GitDirty
          /\ ExtraGitCommit = st.ExtraGitCommit
          /\ CurrentCapabilityVersion = st.Cap
    /\ macFlavorOnce = NewOnce
    /\ isMacSysExt = FALSE
    /\ isMacSandboxed = FALSE
    /\ winFlavorOnce = NewOnce
    /\ isWindowsGUI = FALSE
    /\ isUnstableOnce = NewOnce
    /\ isUnstableBuild = FALSE
    /\ pc = [t \in Threads |-> "idle"]
    /\ op = [t \in Threads |-> "none"]
    /\ exe = [t \in Threads |-> <<>>]
    /\ started = 0
    /\ returned = [a \in Accessors |-> <<>>]
    /\ initRuns = [f \in InitFuncs |-> 0]
    /\ executableCalls = [f \in InitFuncs \cup {"IsWindowsGUI"} |-> 0]
    /\ macInitErr = FALSE
    /\ winLog = {}

\* Processes whose goroutines call the accessors concurrently: every platform,
\* with one executable of each flavour and a stable and an unstable version.
Init ==
    InitWith(GOOSValues, {P_SysExt, P_App, P_Daemon}, {W_GUIUpper, W_Daemon},
             {S_130, S_120dev}, {CHOOSE st \in Stamps : st.GitDirty})

\* Processes over all the input values above.
SeqInit == InitWith(GOOSValues, PosixPaths, WindowsPaths, Shorts, Stamps)

\* os.Executable's possible results: the path, or "" and an error.
ExecutableResults == {[exe |-> exePath, err |-> FALSE], [exe |-> <<>>, err |-> TRUE]}

\* Goroutine t may start a call.
CanCall(t) == pc[t] = "idle" /\ started < MaxCalls

\* Accessor a returns v to goroutine t.
Return(t, a, v) ==
    /\ returned' = [returned EXCEPT ![a] = Append(@, v)]
    /\ pc' = [pc EXCEPT ![t] = "idle"]
    /\ op' = [op EXCEPT ![t] = "none"]

\* ------------------------------------------------ IsMobile, OS, IsWindowsGUI
IsMobile(t) ==
    /\ CanCall(t)
    /\ started' = started + 1
    /\ Return(t, "IsMobile", IsMobileOf(GOOS))
    /\ UNCHANGED <<inputs, macVars, winVars, unstableVars, exe, initRuns,
                   executableCalls, macInitErr, winLog>>

OS(t) ==
    /\ CanCall(t)
    /\ started' = started + 1
    /\ Return(t, "OS", OSOf(GOOS))
    /\ UNCHANGED <<inputs, macVars, winVars, unstableVars, exe, initRuns,
                   executableCalls, macInitErr, winLog>>

IsWindowsGUI(t) ==
    /\ CanCall(t)
    /\ started' = started + 1
    /\ IF NotWindows(GOOS)
       THEN /\ Return(t, "IsWindowsGUI", FALSE)
            /\ UNCHANGED <<executableCalls, winLog>>
       ELSE \E r \in ExecutableResults :
              /\ executableCalls' = [executableCalls EXCEPT !["IsWindowsGUI"] = @ + 1]
              /\ winLog' = winLog \cup {<<r.err, r.exe, WindowsGUIOf(r.exe, GOOS)>>}
              /\ Return(t, "IsWindowsGUI", WindowsGUIOf(r.exe, GOOS))
    /\ UNCHANGED <<inputs, macVars, winVars, unstableVars, exe, initRuns, macInitErr>>

\* -------------------------------------------- IsSandboxedMacOS, IsMacSysExt
\* Entry of either macOS accessor a: false at once off darwin, else
\* macFlavorOnce.Do(initMacFlavor).
CallMac(t, a) ==
    /\ CanCall(t)
    /\ started' = started + 1
    /\ IF NotDarwin(GOOS)
       THEN Return(t, a, FALSE)
       ELSE /\ pc' = [pc EXCEPT ![t] = "macDo"]
            /\ op' = [op EXCEPT ![t] = a]
            /\ UNCHANGED returned
    /\ UNCHANGED <<inputs, macVars, winVars, unstableVars, exe, initRuns,
                   executableCalls, macInitErr, winLog>>

IsSandboxedMacOS(t) == CallMac(t, "IsSandboxedMacOS")

IsMacSysExt(t) == CallMac(t, "IsMacSysExt")

\* macFlavorOnce.Do: load done; return if set, else go and take the mutex.
MacOnceDo(t) ==
    /\ pc[t] = "macDo"
    /\ pc' = [pc EXCEPT ![t] = IF OnceFastPath(macFlavorOnce) THEN "macRet" ELSE "macLock"]
    /\ UNCHANGED <<inputs, macVars, winVars, unstableVars, op, exe, started, returned,
                   initRuns, executableCalls, macInitErr, winLog>>

\* macFlavorOnce.doSlow: lock; if done is set meanwhile unlock and return,
\* else enter initMacFlavor holding the mutex.
MacOnceLock(t) ==
    /\ pc[t] = "macLock"
    /\ OnceCanLock(macFlavorOnce)
    /\ IF macFlavorOnce.done
       THEN /\ pc' = [pc EXCEPT ![t] = "macRet"]
            /\ UNCHANGED <<macFlavorOnce, initRuns>>
       ELSE /\ macFlavorOnce' = [macFlavorOnce EXCEPT !.m = t]
            /\ initRuns' = [initRuns EXCEPT !["initMacFlavor"] = @ + 1]
            /\ pc' = [pc EXCEPT ![t] = "macExe"]
    /\ UNCHANGED <<inputs, isMacSysExt, isMacSandboxed, winVars, unstableVars, op, exe,
                   started, returned, executableCalls, macInitErr, winLog>>

\* initMacFlavor: exe, err := os.Executable(); if err != nil { return }
InitMacFlavorExecutable(t) ==
    /\ pc[t] = "macExe"
    /\ \E r \in ExecutableResults :
          /\ exe' = [exe EXCEPT ![t] = r.exe]
          /\ macInitErr' = (macInitErr \/ r.err)
          /\ pc' = [pc EXCEPT ![t] = IF r.err THEN "macDone" ELSE "macSysExt"]
    /\ executableCalls' = [executableCalls EXCEPT !["initMacFlavor"] = @ + 1]
    /\ UNCHANGED <<inputs, macVars, winVars, unstableVars, op, started, returned,
                   initRuns, winLog>>

\* initMacFlavor: isMacSysExt = filepath.Base(exe) == "io.tailscale...extension"
InitMacFlavorSysExt(t) ==
    /\ pc[t] = "macSysExt"
    /\ isMacSysExt' = MacSysExtOf(exe[t], GOOS)
    /\ pc' = [pc EXCEPT ![t] = "macSandboxed"]
    /\ UNCHANGED <<inputs, macFlavorOnce, isMacSandboxed, winVars, unstableVars, op, exe,
                   started, returned, initRuns, executableCalls, macInitErr, winLog>>

\* initMacFlavor: isMacSandboxed = isMacSysExt || HasSuffix(...) || HasSuffix(...)
InitMacFlavorSandboxed(t) ==
    /\ pc[t] = "macSandboxed"
    /\ isMacSandboxed' = MacSandboxedOf(isMacSysExt, exe[t])
    /\ pc' = [pc EXCEPT ![t] = "macDone"]
    /\ UNCHANGED <<inputs, macFlavorOnce, isMacSysExt, winVars, unstableVars, op, exe,
                   started, returned, initRuns, executableCalls, macInitErr, winLog>>

\* macFlavorOnce.doSlow returns: the deferred done.Store(1) and m.Unlock().
MacOnceDone(t) ==
    /\ pc[t] = "macDone"
    /\ macFlavorOnce' = OnceAfterF(macFlavorOnce, exe[t] # <<>>)
    /\ pc' = [pc EXCEPT ![t] = "macRet"]
    /\ UNCHANGED <<inputs, isMacSysExt, isMacSandboxed, winVars, unstableVars, op, exe,
                   started, returned, initRuns, executableCalls, macInitErr, winLog>>

\* return isMacSandboxed / return isMacSysExt
MacReturn(t) ==
    /\ pc[t] = "macRet"
    /\ Return(t, op[t], IF op[t] = "IsMacSysExt" THEN isMacSysExt ELSE isMacSandboxed)
    /\ exe' = [exe EXCEPT ![t] = <<>>]
    /\ UNCHANGED <<inputs, macVars, winVars, unstableVars, started, initRuns,
                   executableCalls, macInitErr, winLog>>

\* ------------------------------------------------- IsUnstableBuild, GetMeta
\* Entry of IsUnstableBuild, directly or from GetMeta's UnstableBranch field.
CallUnstable(t, a) ==
    /\ CanCall(t)
    /\ started' = started + 1
    /\ pc' = [pc EXCEPT ![t] = "unDo"]
    /\ op' = [op EXCEPT ![t] = a]
    /\ UNCHANGED <<inputs, macVars, winVars, unstableVars, exe, returned, initRuns,
                   executableCalls, macInitErr, winLog>>

IsUnstableBuild(t) == CallUnstable(t, "IsUnstableBuild")

GetMeta(t) == CallUnstable(t, "GetMeta")

\* isUnstableOnce.Do: load done; return if set, else go and take the mutex.
UnstableOnceDo(t) ==
    /\ pc[t] = "unDo"
    /\ pc' = [pc EXCEPT ![t] = IF OnceFastPath(isUnstableOnce) THEN "unRet" ELSE "unLock"]
    /\ UNCHANGED <<inputs, macVars, winVars, unstableVars, op, exe, started, returned,
                   initRuns, executableCalls, macInitErr, winLog>>

\* isUnstableOnce.doSlow: lock; if done is set meanwhile unlock and return,
\* else enter initUnstable holding the mutex.
UnstableOnceLock(t) ==
    /\ pc[t] = "unLock"
    /\ OnceCanLock(isUnstableOnce)
    /\ IF isUnstableOnce.done
       THEN /\ pc' = [pc EXCEPT ![t] = "unRet"]
            /\ UNCHANGED <<isUnstableOnce, initRuns>>
       ELSE /\ isUnstableOnce' = [isUnstableOnce EXCEPT !.m = t]
            /\ initRuns' = [initRuns EXCEPT !["initUnstable"] = @ + 1]
            /\ pc' = [pc EXCEPT ![t] = "unInit"]
    /\ UNCHANGED <<inputs, macVars, winVars, isUnstableBuild, op, exe, started, returned,
                   executableCalls, macInitErr, winLog>>

\* initUnstable, from its first statement to its return.
InitUnstable(t) ==
    /\ pc[t] = "unInit"
    /\ isUnstableBuild' = InitUnstableOf(Short, isUnstableBuild)
    /\ pc' = [pc EXCEPT ![t] = "unDone"]
    /\ UNCHANGED <<inputs, macVars, winVars, isUnstableOnce, op, exe, started, returned,
                   initRuns, executableCalls, macInitErr, winLog>>

\* isUnstableOnce.doSlow returns: the deferred done.Store(1) and m.Unlock().
UnstableOnceDone(t) ==
    /\ pc[t] = "unDone"
    /\ isUnstableOnce' = OnceAfterF(isUnstableOnce, TRUE)
    /\ pc' = [pc EXCEPT ![t] = "unRet"]
    /\ UNCHANGED <<inputs, macVars, winVars, isUnstableBuild, op, exe, started, returned,
                   initRuns, executableCalls, macInitErr, winLog>>

\* The Meta value GetMeta builds, unstable being what IsUnstableBuild returned.
MetaOf(unstable) ==
    [MajorMinorPatch |-> majorMinorPatch,
     Short |-> Short,
     Long |-> Long,
     GitCommit |-> GitCommit,
     GitDirty |-> GitDirty,
     ExtraGitCommit |-> ExtraGitCommit,
     IsDev |-> IsDevOf(Short),
     UnstableBranch |-> unstable,
     DaemonLong |-> <<>>,
     Cap |-> CurrentCapabilityVersion]

\* return isUnstableBuild, and in GetMeta the Meta literal around it.
UnstableReturn(t) ==
    /\ pc[t] = "unRet"
    /\ Return(t, op[t], IF op[t] = "GetMeta" THEN MetaOf(isUnstableBuild) ELSE isUnstableBuild)
    /\ UNCHANGED <<inputs, macVars, winVars, unstableVars, exe, started, initRuns,
                   executableCalls, macInitErr, winLog>>

\* ------------------------------------------------------------ specification
\* One step of goroutine t.
Step(t) ==
    \/ IsMobile(t)
    \/ OS(t)
    \/ IsWindowsGUI(t)
    \/ IsSandboxedMacOS(t)
    \/ IsMacSysExt(t)
    \/ MacOnceDo(t)
    \/ MacOnceLock(t)
    \/ InitMacFlavorExecutable(t)
    \/ InitMacFlavorSysExt(t)
    \/ InitMacFlavorSandboxed(t)
    \/ MacOnceDone(t)
    \/ MacReturn(t)
    \/ IsUnstableBuild(t)
    \/ GetMeta(t)
    \/ UnstableOnceDo(t)
    \/ UnstableOnceLock(t)
    \/ InitUnstable(t)
    \/ UnstableOnceDone(t)
    \/ UnstableReturn(t)

Next == \E t \in Threads : Step(t)

\* Goroutines calling the accessors concurrently.
Spec == Init /\ [][Next]_vars

\* The accessors called one after another from a single goroutine, over all
\* the input values.
SeqNext == Step(1)

SeqSpec == SeqInit /\ [][SeqNext]_vars

\* ------------------------------------------------------------------ claims
\* The values a sequence holds.
Range(s) == {s[i] : i \in DOMAIN s}

MacAccessors == {"IsSandboxedMacOS", "IsMacSysExt"}

\* C1: under any interleaving of concurrent first-time callers, initMacFlavor
\* and initUnstable each run exactly once (never twice, and once as soon as a
\* caller has come back from Do), and every caller of a memoized detector
\* returns the final cached value.
C1_ComputedOnce ==
    /\ initRuns["initMacFlavor"] <= 1
    /\ initRuns["initUnstable"] <= 1
    /\ \A t \in Threads :
          /\ pc[t] = "macRet" => initRuns["initMacFlavor"] = 1 /\ macFlavorOnce.done
          /\ pc[t] = "unRet" => initRuns["initUnstable"] = 1 /\ isUnstableOnce.done
    /\ GOOS = "darwin" =>
          /\ Range(returned["IsSandboxedMacOS"]) \subseteq {isMacSandboxed}
          /\ Range(returned["IsMacSysExt"]) \subseteq {isMacSysExt}
          /\ (returned["IsSandboxedMacOS"] # <<>> \/ returned["IsMacSysExt"] # <<>>)
                => initRuns["initMacFlavor"] = 1
    /\ Range(returned["IsUnstableBuild"]) \subseteq {isUnstableBuild}
    /\ {m.UnstableBranch : m \in Range(returned["GetMeta"])} \subseteq {isUnstableBuild}
    /\ (returned["IsUnstableBuild"] # <<>> \/ returned["GetMeta"] # <<>>)
          => initRuns["initUnstable"] = 1

\* Two goroutines that both entered macFlavorOnce.Do before either returned
\* are back from it, one in each accessor, after a single initMacFlavor.
C1_Witness ==
    \E t1, t2 \in Threads :
        /\ pc[t1] = "macRet" /\ op[t1] = "IsSandboxedMacOS"
        /\ pc[t2] = "macRet" /\ op[t2] = "IsMacSysExt"
        /\ initRuns["initMacFlavor"] = 1
        /\ isMacSandboxed

\* C3: on macOS, once os.Executable has failed inside initMacFlavor, both
\* flags stay false, every call of IsMacSysExt and IsSandboxedMacOS returns
\* false, and os.Executable is not called again by initMacFlavor, although a
\* later call could succeed.
C3_NoRetryAfterFailure ==
    (GOOS = "darwin" /\ macInitErr) =>
        /\ ~isMacSysExt
        /\ ~isMacSandboxed
        /\ \A a \in MacAccessors : Range(returned[a]) \subseteq {FALSE}
        /\ executableCalls["initMacFlavor"] = 1
        /\ initRuns["initMacFlavor"] = 1

\* The system-extension binary, whose path resolution failed in initMacFlavor:
\* one call has returned false and a later call has returned false too.
C3_Witness ==
    /\ GOOS = "darwin"
    /\ exePath = P_SysExt
    /\ macInitErr
    /\ returned["IsMacSysExt"] = <<FALSE>>
    /\ returned["IsSandboxedMacOS"] = <<FALSE>>

\* C4: off macOS, IsSandboxedMacOS and IsMacSysExt return false whatever the
\* executable's path, never call os.Executable, never fire macFlavorOnce and
\* leave isMacSysExt and isMacSandboxed as they were.
C4_OffDarwin ==
    GOOS # "darwin" =>
        /\ \A a \in MacAccessors : Range(returned[a]) \subseteq {FALSE}
        /\ executableCalls["initMacFlavor"] = 0
        /\ initRuns["initMacFlavor"] = 0
        /\ macFlavorOnce = NewOnce
        /\ ~isMacSysExt
        /\ ~isMacSandboxed

\* On iOS, with an executable named like the system extension, both
\* accessors have been called.
C4_Witness ==
    /\ GOOS = "ios"
    /\ exePath = P_SysExt
    /\ returned["IsMacSysExt"] = <<FALSE>>
    /\ returned["IsSandboxedMacOS"] = <<FALSE>>

\* p ends with suffix: p is some string followed by suffix.
EndsWith(p, suffix) ==
    \E k \in 0..Len(p) : p = SubSeq(p, 1, k) \o suffix

\* The file-name component of the "/"-separated path p is name: p is name,
\* or a directory prefix ending in "/" followed by name.
FileNameIs(p, name) ==
    /\ \A i \in 1..Len(name) : name[i] # "/"
    /\ \/ p = name
       \/ EndsWith(p, <<"/">> \o name)

\* C5: on macOS with the executable's path resolved, IsMacSysExt is true iff
\* the path's file name is exactly "io.tailscale.ipn.macsys.network-extension",
\* and IsSandboxedMacOS is true iff IsMacSysExt is, or the path ends with
\* "/Contents/MacOS/Tailscale" or "/Contents/MacOS/IPNExtension"; so a path
\* whose last element is the system-extension name gives true for both.
C5_MacFlavor ==
    LET sysExt == FileNameIs(exePath, MacSysExtName)
        sandboxed == \/ sysExt
                     \/ EndsWith(exePath, MacAppSuffix)
                     \/ EndsWith(exePath, MacExtSuffix)
    IN (GOOS = "darwin" /\ ~macInitErr) =>
          /\ Range(returned["IsMacSysExt"]) \subseteq {sysExt}
          /\ Range(returned["IsSandboxedMacOS"]) \subseteq {sandboxed}
          /\ macFlavorOnce.done => (isMacSysExt = sysExt /\ isMacSandboxed = sandboxed)
          /\ (macFlavorOnce.done /\ EndsWith(exePath, <<"/">> \o MacSysExtName)) => isMacSysExt
          /\ (macFlavorOnce.done /\ isMacSysExt) => isMacSandboxed

\* The system-extension binary on macOS: both accessors have returned true.
C5_Witness ==
    /\ GOOS = "darwin"
    /\ exePath = P_SysExt
    /\ ~macInitErr
    /\ returned["IsMacSysExt"] = <<TRUE>>
    /\ returned["IsSandboxedMacOS"] = <<TRUE>>

\* c in upper case.
UpperChar(c) ==
    IF \E i \in 1..Len(LowerLetters) : LowerLetters[i] = c
    THEN UpperLetters[CHOOSE i \in 1..Len(LowerLetters) : LowerLetters[i] = c]
    ELSE c

\* The file-name component of the Windows path p (what follows its last "\"
\* or "/") equals name when letter case is ignored.
WindowsFileNameIsIgnoringCase(p, name) ==
    \E k \in 0..Len(p) :
        LET tail == SubSeq(p, k + 1, Len(p)) IN
        /\ k > 0 => p[k] \in {"\\", "/"}
        /\ k = 0 => p = <<>>
        /\ \A i \in 1..Len(tail) : tail[i] \notin {"\\", "/"}
        /\ [i \in 1..Len(tail) |-> UpperChar(tail[i])] = [i \in 1..Len(name) |-> UpperChar(name[i])]

\* C6: IsWindowsGUI returns false off Windows; on Windows every call calls
\* os.Executable, none writes isWindowsGUI or fires winFlavorOnce, and a call
\* returns true iff resolution succeeded and the path's file name is
\* "tailscale-ipn.exe" or "tailscale-ipn" up to letter case.
C6_WindowsGUI ==
    /\ GOOS # "windows" => Range(returned["IsWindowsGUI"]) \subseteq {FALSE}
    /\ GOOS = "windows" => executableCalls["IsWindowsGUI"] = Len(returned["IsWindowsGUI"])
    /\ isWindowsGUI = FALSE
    /\ winFlavorOnce = NewOnce
    /\ initRuns["initWinFlavor"] = 0
    /\ executableCalls["initWinFlavor"] = 0
    /\ \A e \in winLog :
          e[3] = /\ ~e[1]
                 /\ \/ WindowsFileNameIsIgnoringCase(e[2], WinGUIExe)
                    \/ WindowsFileNameIsIgnoringCase(e[2], WinGUI)

\* On Windows, as "C:\P\Tailscale-IPN.EXE": a call whose path resolution
\* succeeded returned true, and a later one whose resolution failed, false.
C6_Witness ==
    /\ GOOS = "windows"
    /\ exePath = W_GUIUpper
    /\ returned["IsWindowsGUI"] = <<TRUE, FALSE>>
    /\ executableCalls["IsWindowsGUI"] = 2

\* "-dev" occurs somewhere in s.
HasDevMarker(s) ==
    \E i \in 1..Len(s) :
        /\ i + 3 <= Len(s)
        /\ s[i] = "-" /\ s[i + 1] = "d" /\ s[i + 2] = "e" /\ s[i + 3] = "v"

\* C8: every Meta that GetMeta returns has IsDev true iff Short contains
\* "-dev", UnstableBranch equal to what IsUnstableBuild returns in the process,
\* the stamped strings and flag unchanged, Cap equal to the capability
\* version, and DaemonLong empty.
C8_GetMeta ==
    \A m \in Range(returned["GetMeta"]) :
        /\ m.IsDev = HasDevMarker(Short)
        /\ Range(returned["IsUnstableBuild"]) \subseteq {m.UnstableBranch}
        /\ m.UnstableBranch = isUnstableBuild
        /\ m.MajorMinorPatch = majorMinorPatch
        /\ m.Short = Short
        /\ m.Long = Long
        /\ m.GitCommit = GitCommit
        /\ m.GitDirty = GitDirty
        /\ m.ExtraGitCommit = ExtraGitCommit
        /\ m.Cap = CurrentCapabilityVersion
        /\ m.DaemonLong = <<>>

\* A dirty, dated dev build of an unstable version: IsUnstableBuild returned
\* true and GetMeta a Meta with IsDev and UnstableBranch set.
C8_Witness ==
    /\ Short = S_130dev
    /\ GitDirty
    /\ returned["IsUnstableBuild"] = <<TRUE>>
    /\ Len(returned["GetMeta"]) = 1
    /\ returned["GetMeta"][1].IsDev
    /\ returned["GetMeta"][1].UnstableBranch

\* C9: OS returns "iOS" for GOOS "ios", "macOS" for "darwin" and GOOS itself
\* otherwise, and a call of OS changes no package-level variable.
C9_OSName ==
    /\ [](\A v \in Range(returned["OS"]) :
            v = CASE GOOS = "ios" -> "iOS"
                  [] GOOS = "darwin" -> "macOS"
                  [] OTHER -> GOOS)
    /\ [][returned'["OS"] # returned["OS"] =>
            UNCHANGED <<inputs, macVars, winVars, unstableVars>>]_vars

\* OS has returned "iOS" on ios.
C9_Witness ==
    /\ GOOS = "ios"
    /\ returned["OS"] = <<"iOS", "iOS">>

\* C10: on macOS nobody comes back from macFlavorOnce.Do before initMacFlavor
\* has completed; so no call returns false for a flag whose final value is
\* true, and never has IsMacSysExt returned true and IsSandboxedMacOS false.
C10_NoPartialResult ==
    GOOS = "darwin" =>
        /\ \A t \in Threads : pc[t] = "macRet" => macFlavorOnce.done
        /\ \A a \in MacAccessors : returned[a] # <<>> => macFlavorOnce.done
        /\ (macFlavorOnce.done /\ isMacSysExt) => FALSE \notin Range(returned["IsMacSysExt"])
        /\ (macFlavorOnce.done /\ isMacSandboxed) => FALSE \notin Range(returned["IsSandboxedMacOS"])
        /\ ~(TRUE \in Range(returned["IsMacSysExt"]) /\ FALSE \in Range(returned["IsSandboxedMacOS"]))

\* A caller of IsSandboxedMacOS waits for the mutex while initMacFlavor has
\* set isMacSysExt and not yet isMacSandboxed.
C10_Witness ==
    \E t1, t2 \in Threads :
        /\ pc[t1] = "macLock" /\ op[t1] = "IsSandboxedMacOS"
        /\ pc[t2] = "macSandboxed"
        /\ isMacSysExt
        /\ ~isMacSandboxed

\* s is an optional sign followed by decimal digits that strconv.Atoi
\* accepts, and the integer is odd (whatever its sign).
IsOddInteger(s) ==
    /\ ~Atoi(s).err
    /\ s[Len(s)] \in {"1", "3", "5", "7", "9"}

\* The text between the first and the second "." of s is an odd integer.
HasOddMinor(s) ==
    \E i, j \in 1..Len(s) :
        /\ i < j
        /\ s[i] = "." /\ s[j] = "."
        /\ \A k \in 1..(j - 1) : s[k] = "." => k = i
        /\ IsOddInteger(SubSeq(s, i + 1, j - 1))

\* C2: IsUnstableBuild returns true iff Short has two "." with an odd integer,
\* of either sign, between the first and the second; "1.2.0", "1.3.0", "1.x.0"
\* and "1" give false, true, false, false.
C2_OddMinor ==
    /\ Range(returned["IsUnstableBuild"]) \subseteq {HasOddMinor(Short)}
    /\ Short \in {S_120, S_1x0, S_1} => Range(returned["IsUnstableBuild"]) \subseteq {FALSE}
    /\ Short = S_130 => Range(returned["IsUnstableBuild"]) \subseteq {TRUE}

\* C7: every call of an accessor returns what its first call returned.
C7_SameAsFirstCall ==
    \A a \in Accessors : \A i \in DOMAIN returned[a] : returned[a][i] = returned[a][1]

====
